---------------------------- MODULE Spec2Model ----------------------------
(***************************************************************************)
(* A model of livesplit-one-terminal (src/src/main.rs): the main thread    *)
(* (argument handling, run loading, terminal set-up, the render loop and   *)
(* shutdown), the input thread it spawns, the optional global hotkey       *)
(* system created next to the timer, the reader/writer lock of the shared  *)
(* timer and the quit channel.  The pure helpers (get_tui_color, the layout*)
(* sizes, the text overlay merges) are operators, exercised by PureSpec.   *)
(*                                                                         *)
(* The timer engine (livesplit_core) is external: its state is abstracted  *)
(* to the number of commands applied to it so far (its version), the last  *)
(* command applied, with the thread that applied it, and the phase, active *)
(* segment and recorded splits of the attempt.                             *)
(***************************************************************************)
EXTENDS Integers, Sequences, FiniteSets, TLC

(***************************************************************************)
(* Bounds of the model.                                                    *)
(***************************************************************************)
\* Total number of input events (keys read, end-of-stream, read errors,
\* global hotkey presses) in one behaviour.
MaxEvents == 2
\* Longest text (label, value, category) drawn freely over Chars.
MaxLen == 2
\* Largest small segment count handed to the layout.
MaxSegments == 5
\* How far around 2^16 the segment counts handed to the layout reach.
NearU16 == 4
\* Number of steps the normalized colour range [0,1] is cut into.
ColorSteps == 6

(***************************************************************************)
(* Values.                                                                 *)
(***************************************************************************)
Paths == {"a.lss", "b.lss"}

\* The keys the input thread may read (termion Key::Char values).  "7" and
\* "x" stand for every key the match does not name.
Keys == {"1", "2", "3", "4", "5", "6", "7", "8", "q", "x"}

NoKey == "none"
EOF == "EOF"
ERR == "ERR"

NoCommand == "no_command"

\* Run::new(): an empty run.
EmptyRun == [game |-> "", category |-> "", segments |-> <<>>]

\* A default run whose last segment was never pushed.
DefaultRun_without_last ==
    [game |-> "Livesplit Terminal",
     category |-> "Any%",
     segments |-> <<"Split 1", "Split 2", "Split 3", "Split 4">>]

\* The run built when no FILE is given.
DefaultRun ==
    [game |-> "Livesplit Terminal",
     category |-> "Any%",
     segments |-> <<"Split 1", "Split 2", "Split 3", "Split 4", "Complete!">>]

\* The runs composite::parse may deliver: any number of segments.  The
\* program is run on an empty run and on a run of four segments.
ParsedSegmentCounts == {0, 4}

ParsedRun(n) ==
    [game |-> "parsed", category |-> "parsed",
     segments |-> [i \in 1..n |-> "segment"]]

NoApplied == [cmd |-> NoCommand, by |-> "none"]

\* The six widget queries of draw, in the order draw issues them.
WidgetOrder ==
    <<"splits", "title", "timer", "previous_segment", "sum_of_best",
      "possible_time_save">>

VARIABLES
    args,           \* the command line: [help, bad_opt, free]
    mainpc,         \* position of the main thread
    stdout,         \* lines printed by print_help / error_out
    exit_code,      \* "none" while the process runs, else its exit code
    file_result,    \* result of File::open: "unset" | "ok" | "err"
    run_result,     \* result of composite::parse: "unset" | "ok" | "err"
    run,            \* the Run handed to Timer::new
    timer,          \* the shared timer: [created, version, last]
    lock,           \* the timer's RwLock: [writer, readers]
    hotkey_system,  \* _hotkey_system: "unset" | "some" | "none" | "dropped"
    hkpc,           \* position of the hotkey thread: "off" | "idle" | "applying"
    terminal,       \* [screen, cursor]
    chan,           \* the mpsc channel: [created, open, pending, sent]
    lpc,            \* position of the input thread
    key,            \* the last result of stdin.keys().next() (the local c)
    snap,           \* widget states captured so far in the current frame
    nEvents,        \* input events consumed so far
    call            \* the last pure-function call (PureSpec only)

vars ==
    <<args, mainpc, stdout, exit_code, file_result, run_result, run, timer,
      lock, hotkey_system, hkpc, terminal, chan, lpc, key, snap, nEvents, call>>

NoCall == [fn |-> "none"]

(***************************************************************************)
(* The timer engine (livesplit_core::Timer), as far as the commands of the *)
(* key match move an attempt through its phases.                           *)
(***************************************************************************)
\* Timer::new(run): no attempt is under way.  phase is the TimerPhase,
\* current the number of the active segment (0: none, one past the last
\* segment once the run has ended) and recorded the segments of the
\* attempt that have a split time.
NoTimer ==
    [created |-> FALSE, version |-> 0, last |-> NoApplied,
     phase |-> "NotRunning", current |-> 0, recorded |-> {}]

\* Timer::start: only from NotRunning; the first segment becomes active.
EngineStart(t) ==
    IF t.phase = "NotRunning"
      THEN [t EXCEPT !.phase = "Running", !.current = 1]
      ELSE t

\* Timer::split: only while Running; the active segment gets its split
\* time and the next one becomes active, the run ends after the last.
EngineSplit(t, n) ==
    IF t.phase = "Running"
      THEN [t EXCEPT !.recorded = @ \cup {t.current},
                     !.current = @ + 1,
                     !.phase = IF t.current = n THEN "Ended" ELSE "Running"]
      ELSE t

\* The attempt after the command cmd, for a run of n segments.
EngineApply(t, cmd, n) ==
    CASE cmd = "split_or_start" ->
           IF t.phase = "NotRunning" THEN EngineStart(t) ELSE EngineSplit(t, n)
      [] cmd = "skip_split" ->
           IF t.phase \in {"Running", "Paused"} /\ t.current < n
             THEN [t EXCEPT !.current = @ + 1]
             ELSE t
      [] cmd = "undo_split" ->
           IF t.phase # "NotRunning" /\ t.current > 1
             THEN [t EXCEPT !.phase = IF @ = "Ended" THEN "Running" ELSE @,
                            !.current = @ - 1,
                            !.recorded = @ \ {t.current - 1}]
             ELSE t
      [] cmd = "reset(true)" ->
           [t EXCEPT !.phase = "NotRunning", !.current = 0, !.recorded = {}]
      [] cmd = "toggle_pause_or_start" ->
           CASE t.phase = "NotRunning" -> EngineStart(t)
             [] t.phase = "Running" -> [t EXCEPT !.phase = "Paused"]
             [] t.phase = "Paused" -> [t EXCEPT !.phase = "Running"]
             [] OTHER -> t
      [] OTHER -> t

\* The timer after one more command: every command counts as a change.
Applied(t, cmd, by) ==
    [EngineApply(t, cmd, Len(run.segments))
       EXCEPT !.version = @ + 1, !.last = [cmd |-> cmd, by |-> by]]

(***************************************************************************)
(* The timer's reader/writer lock (SharedTimer = Arc<RwLock<Timer>>).      *)
(***************************************************************************)
FreeLock == [writer |-> "none", readers |-> 0]

\* A read lock that does not wait for the writer.
CanRead_ignoring_writer(l) == l.readers >= 0

\* timer.read() returns once no writer holds the lock.
CanRead(l) == l.writer = "none"

\* timer.write() returns once nobody holds the lock.
CanWrite(l) == l.writer = "none" /\ l.readers = 0

(***************************************************************************)
(* The key match of the input thread.                                      *)
(***************************************************************************)
\* The match with the arms of '4' and '6' exchanged.
KeyCommand_swapped(c) ==
    CASE c = "1" -> "split_or_start"
      [] c = "2" -> "skip_split"
      [] c = "3" -> "reset(true)"
      [] c = "4" -> "switch_to_next_comparison"
      [] c = "5" -> "toggle_pause_or_start"
      [] c = "6" -> "switch_to_previous_comparison"
      [] c = "8" -> "undo_split"
      [] OTHER -> NoCommand

\* The timer command the match arm of key c calls; NoCommand for 'q' (break)
\* and for the wildcard arm.
KeyCommand(c) ==
    CASE c = "1" -> "split_or_start"
      [] c = "2" -> "skip_split"
      [] c = "3" -> "reset(true)"
      [] c = "4" -> "switch_to_previous_comparison"
      [] c = "5" -> "toggle_pause_or_start"
      [] c = "6" -> "switch_to_next_comparison"
      [] c = "8" -> "undo_split"
      [] OTHER -> NoCommand

\* A match whose wildcard arm breaks as well.
KeyBreaks_wildcard(c) == c \notin {"1", "2", "3", "4", "5", "6", "8"}

\* Whether the match arm of key c leaves the for loop.
KeyBreaks(c) == c = "q"

(***************************************************************************)
(* Initial state: the process has just entered main.                       *)
(***************************************************************************)
Init ==
    /\ args \in [help : BOOLEAN, bad_opt : BOOLEAN,
                 free : {<<>>} \cup {<<p>> : p \in Paths}]
    /\ mainpc = "start"
    /\ stdout = <<>>
    /\ exit_code = "none"
    /\ file_result = "unset"
    /\ run_result = "unset"
    /\ run = EmptyRun
    /\ timer = NoTimer
    /\ lock = FreeLock
    /\ hotkey_system = "unset"
    /\ hkpc = "off"
    /\ terminal = [screen |-> [state |-> "shell", sizes |-> <<>>, rows |-> 0],
                   cursor |-> "shown"]
    /\ chan = [created |-> FALSE, open |-> FALSE, pending |-> 0, sent |-> 0]
    /\ lpc = "unspawned"
    /\ key = NoKey
    /\ snap = <<>>
    /\ nEvents = 0
    /\ call = NoCall

(***************************************************************************)
(* Start-up of the main thread.                                            *)
(***************************************************************************)
UsageLine == [text |-> "Usage", path |-> "none"]

\* print_help: prints the usage text and exits with code 0.
print_help ==
    /\ stdout' = Append(stdout, UsageLine)
    /\ exit_code' = "0"
    /\ mainpc' = "exited"

\* An error_out that prints and returns to its caller, which goes on with
\* the run it has.
error_out_returning(text, path) ==
    /\ stdout' = Append(stdout, [text |-> text, path |-> path])
    /\ exit_code' = exit_code
    /\ mainpc' = "create_timer"

\* error_out: prints the diagnostic as one line and exits with code 1.
error_out(text, path) ==
    /\ stdout' = Append(stdout, [text |-> text, path |-> path])
    /\ exit_code' = "1"
    /\ mainpc' = "exited"

\* A panic of the main thread (an unwrap of an Err): the process ends with
\* Rust's panic exit code.
main_panic ==
    /\ exit_code' = "101"
    /\ mainpc' = "panicked"

\* Option parsing: a parse error or -h prints the help and exits.
ParseOpts ==
    /\ mainpc = "start"
    /\ IF args.bad_opt \/ args.help
         THEN print_help
         ELSE mainpc' = "load_run" /\ UNCHANGED <<stdout, exit_code>>
    /\ UNCHANGED <<args, file_result, run_result, run, timer, lock,
                   hotkey_system, hkpc, terminal, chan, lpc, key, snap,
                   nEvents, call>>

\* let mut run = Run::new(); the else branch builds the default run.
LoadRun ==
    /\ mainpc = "load_run"
    /\ IF args.free # <<>>
         THEN mainpc' = "open_file" /\ run' = EmptyRun
         ELSE mainpc' = "create_timer" /\ run' = DefaultRun
    /\ UNCHANGED <<args, stdout, exit_code, file_result, run_result, timer,
                   lock, hotkey_system, hkpc, terminal, chan, lpc, key, snap,
                   nEvents, call>>

\* File::open(splits_filename); on Err, error_out.
OpenFile ==
    /\ mainpc = "open_file"
    /\ \E r \in {"ok", "err"} :
         /\ file_result' = r
         /\ IF r = "err"
              THEN error_out("Unable to open", args.free[1])
              ELSE mainpc' = "parse_file" /\ UNCHANGED <<stdout, exit_code>>
    /\ UNCHANGED <<args, run_result, run, timer, lock, hotkey_system, hkpc,
                   terminal, chan, lpc, key, snap, nEvents, call>>

\* composite::parse(...); on Err, error_out; else run = the parsed run.
ParseFile ==
    /\ mainpc = "parse_file"
    /\ \/ /\ run_result' = "err"
          /\ error_out("Unable to parse", args.free[1])
          /\ run' = run
       \/ /\ run_result' = "ok"
          /\ \E n \in ParsedSegmentCounts : run' = ParsedRun(n)
          /\ mainpc' = "create_timer"
          /\ UNCHANGED <<stdout, exit_code>>
    /\ UNCHANGED <<args, file_result, timer, lock, hotkey_system, hkpc,
                   terminal, chan, lpc, key, snap, nEvents, call>>

\* A start-up whose hotkey thread runs although no hotkey system was
\* obtained.
CreateTimer_hooks_always ==
    /\ mainpc = "create_timer"
    /\ IF run.segments = <<>>
         THEN /\ main_panic
              /\ UNCHANGED <<timer, hotkey_system, hkpc>>
         ELSE /\ timer' = [NoTimer EXCEPT !.created = TRUE]
              /\ \E hk \in {"some", "none"} : hotkey_system' = hk
              /\ hkpc' = "idle"
              /\ mainpc' = "setup_display"
              /\ UNCHANGED exit_code
    /\ UNCHANGED <<args, stdout, file_result, run_result, run, lock, terminal,
                   chan, lpc, key, snap, nEvents, call>>

\* Timer::new(run).unwrap().into_shared(): livesplit_core refuses a run
\* without segments, and the unwrap then panics.  HotkeySystem::new(..).ok()
\* is Some when the global hooks could be registered and None otherwise.
CreateTimer ==
    /\ mainpc = "create_timer"
    /\ IF run.segments = <<>>
         THEN /\ main_panic
              /\ UNCHANGED <<timer, hotkey_system, hkpc>>
         ELSE /\ timer' = [NoTimer EXCEPT !.created = TRUE]
              /\ \E hk \in {"some", "none"} :
                   /\ hotkey_system' = hk
                   /\ hkpc' = IF hk = "some" THEN "idle" ELSE "off"
              /\ mainpc' = "setup_display"
              /\ UNCHANGED exit_code
    /\ UNCHANGED <<args, stdout, file_result, run_result, run, lock, terminal,
                   chan, lpc, key, snap, nEvents, call>>

\* Terminal::new(TermionBackend::new().unwrap()).unwrap(), then
\* terminal.clear() and terminal.hide_cursor().
SetupDisplay ==
    /\ mainpc = "setup_display"
    /\ \/ /\ main_panic
          /\ UNCHANGED terminal
       \/ /\ terminal' = [screen |-> [state |-> "cleared", sizes |-> <<>>,
                                       rows |-> 0],
                           cursor |-> "hidden"]
          /\ mainpc' = "spawn"
          /\ UNCHANGED exit_code
    /\ UNCHANGED <<args, stdout, file_result, run_result, run, timer, lock,
                   hotkey_system, hkpc, chan, lpc, key, snap, nEvents, call>>

\* let (tx, rx) = channel(); thread::spawn(move || ...).
Spawn ==
    /\ mainpc = "spawn"
    /\ chan' = [created |-> TRUE, open |-> TRUE, pending |-> 0, sent |-> 0]
    /\ lpc' = "await"
    /\ mainpc' = "poll"
    /\ UNCHANGED <<args, stdout, exit_code, file_result, run_result, run,
                   timer, lock, hotkey_system, hkpc, terminal, key, snap,
                   nEvents, call>>

(***************************************************************************)
(* The layout sizes of draw.                                               *)
(***************************************************************************)
\* usize as u16: truncation to the low 16 bits.
AsU16(n) == n % (2 ^ 16)

\* u16 + u16: sums that do not fit panic when the build checks overflow
\* (debug) and wrap when it does not (release).
AddU16(a, b, overflow_checks) ==
    IF a + b < 2 ^ 16
      THEN [panic |-> FALSE, value |-> a + b]
      ELSE IF overflow_checks
             THEN [panic |-> TRUE, value |-> 0]
             ELSE [panic |-> FALSE, value |-> (a + b) % (2 ^ 16)]

\* The height of the splits region: splits_state.splits.len() as u16 + 3.
SplitsHeight(len, overflow_checks) == AddU16(AsU16(len), 3, overflow_checks)

\* The six Size::Fixed heights handed to Group::sizes, in order.
LayoutSizes(len, overflow_checks) ==
    LET h == SplitsHeight(len, overflow_checks)
    IN  IF h.panic
          THEN [panic |-> TRUE, sizes |-> <<>>]
          ELSE [panic |-> FALSE, sizes |-> <<3, h.value, 2, 1, 1, 1>>]

(***************************************************************************)
(* The render loop of the main thread and draw.                            *)
(***************************************************************************)
NoFrame(state) == [state |-> state, sizes |-> <<>>, rows |-> 0]

\* A loop that waits for the notification with rx.recv().
Poll_blocking ==
    /\ mainpc = "poll"
    /\ chan.pending > 0
    /\ chan' = [chan EXCEPT !.pending = @ - 1]
    /\ mainpc' = "stopping"
    /\ snap' = <<>>
    /\ UNCHANGED <<args, stdout, exit_code, file_result, run_result, run,
                   timer, lock, hotkey_system, hkpc, terminal, lpc, key,
                   nEvents, call>>

\* if let Ok(_) = rx.try_recv() { break; }  else draw begins (t.size()).
Poll ==
    /\ mainpc = "poll"
    /\ IF chan.pending > 0
         THEN /\ chan' = [chan EXCEPT !.pending = @ - 1]
              /\ mainpc' = "stopping"
              /\ snap' = <<>>
         ELSE /\ chan' = chan
              /\ mainpc' = "read"
              /\ snap' = <<>>
    /\ UNCHANGED <<args, stdout, exit_code, file_result, run_result, run,
                   timer, lock, hotkey_system, hkpc, terminal, lpc, key,
                   nEvents, call>>

\* layout.timer.read(): one read guard per widget query.
ReadLock ==
    /\ mainpc = "read"
    /\ CanRead(lock)
    /\ lock' = [lock EXCEPT !.readers = @ + 1]
    /\ mainpc' = "reading"
    /\ UNCHANGED <<args, stdout, exit_code, file_result, run_result, run,
                   timer, hotkey_system, hkpc, terminal, chan, lpc, key, snap,
                   nEvents, call>>

\* What a widget's state() captures of the engine under the guard: the
\* engine's version, and for the splits the number of rows.
WidgetState(widget, guard) ==
    IF widget = "splits"
      THEN [widget |-> widget, version |-> timer.version, guard |-> guard,
            splits_len |-> Len(run.segments)]
      ELSE [widget |-> widget, version |-> timer.version, guard |-> guard]

\* A query whose read guard is bound to a name and so outlives the
\* statement.
Query_keeping_guard ==
    /\ mainpc = "reading"
    /\ snap' = Append(snap, WidgetState(WidgetOrder[Len(snap) + 1],
                                        Len(snap) + 1))
    /\ lock' = lock
    /\ mainpc' = IF Len(snap') = Len(WidgetOrder) THEN "flush" ELSE "read"
    /\ UNCHANGED <<args, stdout, exit_code, file_result, run_result, run,
                   timer, hotkey_system, hkpc, terminal, chan, lpc, key,
                   nEvents, call>>

\* component.state(&guard, ..): the state is captured and the temporary
\* guard is dropped at the end of the statement.
Query ==
    /\ mainpc = "reading"
    /\ snap' = Append(snap, WidgetState(WidgetOrder[Len(snap) + 1],
                                        Len(snap) + 1))
    /\ lock' = [lock EXCEPT !.readers = @ - 1]
    /\ mainpc' = IF Len(snap') = Len(WidgetOrder) THEN "flush" ELSE "read"
    /\ UNCHANGED <<args, stdout, exit_code, file_result, run_result, run,
                   timer, hotkey_system, hkpc, terminal, chan, lpc, key,
                   nEvents, call>>

\* A draw that builds the table from the rows it kept from the frame
\* before.
Flush_stale_rows ==
    /\ mainpc = "flush"
    /\ \E overflow_checks \in BOOLEAN :
         LET layout == LayoutSizes(snap[1].splits_len, overflow_checks)
         IN  IF layout.panic
               THEN main_panic /\ UNCHANGED terminal
               ELSE /\ terminal' =
                         [terminal EXCEPT
                            !.screen = [state |-> "frame",
                                        sizes |-> layout.sizes,
                                        rows |-> terminal.screen.rows]]
                    /\ mainpc' = "sleep"
                    /\ UNCHANGED exit_code
    /\ snap' = <<>>
    /\ UNCHANGED <<args, stdout, file_result, run_result, run, timer, lock,
                   hotkey_system, hkpc, chan, lpc, key, nEvents, call>>

\* Group::sizes(..).render(..) and t.draw(): the frame reaches the screen
\* and draw returns, which ends the life of the captured widget states.
Flush ==
    /\ mainpc = "flush"
    /\ \E overflow_checks \in BOOLEAN :
         LET layout == LayoutSizes(snap[1].splits_len, overflow_checks)
         IN  IF layout.panic
               THEN main_panic /\ UNCHANGED terminal
               ELSE /\ terminal' =
                         [terminal EXCEPT
                            !.screen = [state |-> "frame",
                                        sizes |-> layout.sizes,
                                        rows |-> snap[1].splits_len]]
                    /\ mainpc' = "sleep"
                    /\ UNCHANGED exit_code
    /\ snap' = <<>>
    /\ UNCHANGED <<args, stdout, file_result, run_result, run, timer, lock,
                   hotkey_system, hkpc, chan, lpc, key, nEvents, call>>

\* thread::sleep(Duration::from_millis(33)).
Sleep ==
    /\ mainpc = "sleep"
    /\ mainpc' = "poll"
    /\ UNCHANGED <<args, stdout, exit_code, file_result, run_result, run,
                   timer, lock, hotkey_system, hkpc, terminal, chan, lpc, key,
                   snap, nEvents, call>>

\* terminal.clear() after the loop.
ClearOnExit ==
    /\ mainpc = "stopping"
    /\ terminal' = [terminal EXCEPT !.screen = NoFrame("cleared")]
    /\ mainpc' = "show_cursor"
    /\ UNCHANGED <<args, stdout, exit_code, file_result, run_result, run,
                   timer, lock, hotkey_system, hkpc, chan, lpc, key, snap,
                   nEvents, call>>

\* A shutdown that leaves the cursor hidden.
ShowCursor_skipped ==
    /\ mainpc = "show_cursor"
    /\ mainpc' = "stopped"
    /\ UNCHANGED <<args, stdout, exit_code, file_result, run_result, run,
                   timer, lock, hotkey_system, hkpc, terminal, chan, lpc, key,
                   snap, nEvents, call>>

\* terminal.show_cursor().
ShowCursor ==
    /\ mainpc = "show_cursor"
    /\ terminal' = [terminal EXCEPT !.cursor = "shown"]
    /\ mainpc' = "stopped"
    /\ UNCHANGED <<args, stdout, exit_code, file_result, run_result, run,
                   timer, lock, hotkey_system, hkpc, chan, lpc, key, snap,
                   nEvents, call>>

\* The end of main: its locals are dropped (rx, the hotkey system) while
\* the other threads still run.
Return ==
    /\ mainpc = "stopped"
    /\ chan' = [chan EXCEPT !.open = FALSE]
    /\ hotkey_system' = IF hotkey_system = "some" THEN "dropped"
                        ELSE hotkey_system
    /\ hkpc' = IF hkpc = "idle" THEN "off" ELSE hkpc
    /\ mainpc' = "dropped"
    /\ UNCHANGED <<args, stdout, exit_code, file_result, run_result, run,
                   timer, lock, terminal, lpc, key, snap, nEvents, call>>

\* main has returned: the process exits and takes its threads with it.
Exit ==
    /\ mainpc = "dropped"
    /\ exit_code' = "0"
    /\ mainpc' = "exited"
    /\ lpc' = IF lpc = "panicked" THEN lpc ELSE "killed"
    /\ hkpc' = "off"
    /\ UNCHANGED <<args, stdout, file_result, run_result, run, timer, lock,
                   hotkey_system, terminal, chan, key, snap, nEvents, call>>

(***************************************************************************)
(* The input thread: loop { for key in stdin.keys() {..}  tx.send(()) }.   *)
(***************************************************************************)
Alive == exit_code = "none"

\* stdin.keys().next() delivers a key; c = key.unwrap().
ReadKey ==
    /\ Alive /\ lpc = "await" /\ nEvents < MaxEvents
    /\ \E k \in Keys : key' = k
    /\ lpc' = "dispatch"
    /\ nEvents' = nEvents + 1
    /\ UNCHANGED <<args, mainpc, stdout, exit_code, file_result, run_result,
                   run, timer, lock, hotkey_system, hkpc, terminal, chan,
                   snap, call>>

\* stdin.keys().next() is None: the input stream has ended, the for loop
\* is left.
ReadEof ==
    /\ Alive /\ lpc = "await" /\ nEvents < MaxEvents
    /\ key' = EOF
    /\ lpc' = "send"
    /\ nEvents' = nEvents + 1
    /\ UNCHANGED <<args, mainpc, stdout, exit_code, file_result, run_result,
                   run, timer, lock, hotkey_system, hkpc, terminal, chan,
                   snap, call>>

\* stdin.keys().next() is Some(Err(_)): key.unwrap() panics and the thread
\* ends.
ReadErr ==
    /\ Alive /\ lpc = "await" /\ nEvents < MaxEvents
    /\ key' = ERR
    /\ lpc' = "panicked"
    /\ nEvents' = nEvents + 1
    /\ UNCHANGED <<args, mainpc, stdout, exit_code, file_result, run_result,
                   run, timer, lock, hotkey_system, hkpc, terminal, chan,
                   snap, call>>

\* Key::Char('q') => break.
DispatchBreak ==
    /\ Alive /\ lpc = "dispatch"
    /\ KeyBreaks(key)
    /\ lpc' = "send"
    /\ UNCHANGED <<args, mainpc, stdout, exit_code, file_result, run_result,
                   run, timer, lock, hotkey_system, hkpc, terminal, chan, key,
                   snap, nEvents, call>>

\* A command arm that uses try_write and drops the command when the lock
\* is busy.
DispatchCommand_try_write ==
    /\ Alive /\ lpc = "dispatch"
    /\ ~KeyBreaks(key)
    /\ KeyCommand(key) # NoCommand
    /\ IF CanWrite(lock)
         THEN lock' = [lock EXCEPT !.writer = "input"] /\ lpc' = "applying"
         ELSE lock' = lock /\ lpc' = "await"
    /\ UNCHANGED <<args, mainpc, stdout, exit_code, file_result, run_result,
                   run, timer, hotkey_system, hkpc, terminal, chan, key, snap,
                   nEvents, call>>

\* A command arm: timer.write() is taken.
DispatchCommand ==
    /\ Alive /\ lpc = "dispatch"
    /\ ~KeyBreaks(key)
    /\ KeyCommand(key) # NoCommand
    /\ CanWrite(lock)
    /\ lock' = [lock EXCEPT !.writer = "input"]
    /\ lpc' = "applying"
    /\ UNCHANGED <<args, mainpc, stdout, exit_code, file_result, run_result,
                   run, timer, hotkey_system, hkpc, terminal, chan, key, snap,
                   nEvents, call>>

\* _ => {}.
DispatchIgnore ==
    /\ Alive /\ lpc = "dispatch"
    /\ ~KeyBreaks(key)
    /\ KeyCommand(key) = NoCommand
    /\ lpc' = "await"
    /\ UNCHANGED <<args, mainpc, stdout, exit_code, file_result, run_result,
                   run, timer, lock, hotkey_system, hkpc, terminal, chan, key,
                   snap, nEvents, call>>

\* The command runs on the write guard, which is dropped at the end of the
\* arm; the for loop asks for the next key.
Apply ==
    /\ Alive /\ lpc = "applying"
    /\ timer' = Applied(timer, KeyCommand(key), "input")
    /\ lock' = [lock EXCEPT !.writer = "none"]
    /\ lpc' = "await"
    /\ UNCHANGED <<args, mainpc, stdout, exit_code, file_result, run_result,
                   run, hotkey_system, hkpc, terminal, chan, key, snap,
                   nEvents, call>>

\* tx.send(()) on a channel whose receiver lives: one more pending message.
tx_send(c) == [c EXCEPT !.pending = @ + 1, !.sent = @ + 1]

\* tx.send(()).unwrap(): Err, hence a panic of the thread, once rx is
\* dropped; otherwise the outer loop starts the next for loop.
Send ==
    /\ Alive /\ lpc = "send"
    /\ IF chan.open
         THEN chan' = tx_send(chan) /\ lpc' = "await"
         ELSE chan' = chan /\ lpc' = "panicked"
    /\ UNCHANGED <<args, mainpc, stdout, exit_code, file_result, run_result,
                   run, timer, lock, hotkey_system, hkpc, terminal, key, snap,
                   nEvents, call>>

(***************************************************************************)
(* The hotkey system (HotkeySystem::new(timer.clone())): when it exists,   *)
(* its own thread applies the command of each global hotkey to the timer.  *)
(***************************************************************************)
\* The hotkeys are bound to the same seven commands as the keys; two of
\* them stand for all.
HotkeyCommands == {"split_or_start", "reset(true)"}

HotkeyPress ==
    /\ Alive /\ hkpc = "idle" /\ nEvents < MaxEvents
    /\ CanWrite(lock)
    /\ lock' = [lock EXCEPT !.writer = "hotkey"]
    /\ hkpc' = "applying"
    /\ nEvents' = nEvents + 1
    /\ UNCHANGED <<args, mainpc, stdout, exit_code, file_result, run_result,
                   run, timer, hotkey_system, terminal, chan, lpc, key, snap,
                   call>>

HotkeyApply ==
    /\ Alive /\ hkpc = "applying"
    /\ \E c \in HotkeyCommands : timer' = Applied(timer, c, "hotkey")
    /\ lock' = [lock EXCEPT !.writer = "none"]
    /\ hkpc' = IF hotkey_system = "some" THEN "idle" ELSE "off"
    /\ UNCHANGED <<args, mainpc, stdout, exit_code, file_result, run_result,
                   run, hotkey_system, terminal, chan, lpc, key, snap,
                   nEvents, call>>

(***************************************************************************)
(* get_tui_color.                                                          *)
(***************************************************************************)
\* The factor of the quantization.
ColorScale == 255

\* f as u8 for the float num/den: the fraction is dropped and the value
\* saturates at the ends of u8.
AsU8(num, den) ==
    LET q == num \div den
    IN  IF q < 0 THEN 0 ELSE IF q > 255 THEN 255 ELSE q

\* A quantization by 256.
Quantize_by_256(c) == AsU8(c.num * 256, c.den)

\* (channel * 255.0) as u8, for the normalized channel c.num / c.den.
Quantize(c) == AsU8(c.num * ColorScale, c.den)

\* Color::Rgb of the three quantized channels.
get_tui_color(color) ==
    [red |-> Quantize(color.red),
     green |-> Quantize(color.green),
     blue |-> Quantize(color.blue)]

(***************************************************************************)
(* Text: a string is the sequence of its characters.                       *)
(***************************************************************************)
Chars == {"a", "b", " ", "\t"}

\* The width of every padded field.
FieldWidth == 35

\* An is_whitespace that knows the space only.
is_whitespace_space_only(c) == c = " "

\* char::is_whitespace, on Chars.
is_whitespace(c) == c \in {" ", "\t"}

Spaces(n) == [i \in 1..n |-> " "]

\* format!("{:<w}", s): spaces after s up to w characters, s itself when it
\* is longer.
PadRight(s, w) == IF Len(s) >= w THEN s ELSE s \o Spaces(w - Len(s))

\* format!("{:>w}", s).
PadLeft(s, w) == IF Len(s) >= w THEN s ELSE Spaces(w - Len(s)) \o s

\* format!("{:^w}", s): the odd space goes to the right.
Center(s, w) ==
    IF Len(s) >= w THEN s
    ELSE LET pad == w - Len(s)
         IN  Spaces(pad \div 2) \o s \o Spaces(pad - (pad \div 2))

\* a.chars().zip(b.chars()): as long as the shorter of the two.
ZipLen(a, b) == IF Len(a) <= Len(b) THEN Len(a) ELSE Len(b)

\* The decimal digits of a u32, as {} prints it.
RECURSIVE Digits(_)
Digits(n) ==
    LET d == <<"0", "1", "2", "3", "4", "5", "6", "7", "8", "9">>[(n % 10) + 1]
    IN  IF n < 10 THEN <<d>> ELSE Digits(n \div 10) \o <<d>>

\* format_info_text: text.chars().zip(value.chars())
\*   .map(|(t, v)| if v.is_whitespace() { t } else { v }).collect().
info_merge(text, value) ==
    [i \in 1..ZipLen(text, value) |->
       IF is_whitespace(value[i]) THEN text[i] ELSE value[i]]

format_info_text(text, value) ==
    info_merge(PadRight(text, FieldWidth), PadLeft(value, FieldWidth))

\* The title block of draw: category.chars().zip(attempts.chars())
\*   .map(|(c, a)| if a.is_whitespace() { c } else { a }).collect().
title_merge(category, attempts) ==
    [i \in 1..ZipLen(category, attempts) |->
       IF is_whitespace(attempts[i]) THEN category[i] ELSE attempts[i]]

\* let category = format!("{:^35}", line2 or "").
title_category(line2) ==
    Center(IF line2.some THEN line2.value ELSE <<>>, FieldWidth)

\* let attempts = format!("{:>35}", state.attempts.unwrap()); the caller
\* has made sure that attempts is Some.
title_attempts(attempts) == PadLeft(Digits(attempts.value), FieldWidth)

(***************************************************************************)
(* The pure functions, each called once on inputs drawn from bounded sets. *)
(***************************************************************************)
SeqsUpTo(S, n) == UNION {[1..k -> S] : k \in 0..n}

Fill(c, n) == [i \in 1..n |-> c]

\* Short texts, and texts that fill a field or exceed it by one.
Texts ==
    SeqsUpTo(Chars, MaxLen)
      \cup {Fill(c, FieldWidth) : c \in Chars}
      \cup {Fill(c, FieldWidth + 1) : c \in Chars}

None == [some |-> FALSE, value |-> <<>>]

Some(v) == [some |-> TRUE, value |-> v]

\* Option<u32>: no count, or one of a few counts of one, two and ten digits.
AttemptCounts == {0, 7, 12, 10 ^ 9}

SegmentCounts ==
    (0..MaxSegments) \cup ((2 ^ 16 - NearU16)..(2 ^ 16 + NearU16))

Channels == {[num |-> n, den |-> ColorSteps] : n \in 0..ColorSteps}

ProgramUnchanged ==
    UNCHANGED <<args, mainpc, stdout, exit_code, file_result, run_result,
                run, timer, lock, hotkey_system, hkpc, terminal, chan, lpc,
                key, snap, nEvents>>

CallLayoutSizes ==
    /\ call = NoCall
    /\ \E n \in SegmentCounts, checks \in BOOLEAN :
         call' = [fn |-> "layout", len |-> n, overflow_checks |-> checks,
                  result |-> LayoutSizes(n, checks)]
    /\ ProgramUnchanged

CallGetTuiColor ==
    /\ call = NoCall
    /\ \E r \in Channels, g \in Channels, b \in Channels :
         LET color == [red |-> r, green |-> g, blue |-> b]
         IN  call' = [fn |-> "get_tui_color", color |-> color,
                      result |-> get_tui_color(color)]
    /\ ProgramUnchanged

CallFormatInfoText ==
    /\ call = NoCall
    /\ \E text \in Texts, value \in Texts :
         call' = [fn |-> "format_info_text", text |-> text, value |-> value,
                  base |-> PadRight(text, FieldWidth),
                  overlay |-> PadLeft(value, FieldWidth),
                  panic |-> FALSE,
                  result |-> format_info_text(text, value)]
    /\ ProgramUnchanged

\* The second title line: state.attempts.unwrap() panics on None.
CallTitleLine2 ==
    /\ call = NoCall
    /\ \E line2 \in {None} \cup {Some(t) : t \in Texts},
          attempts \in {[some |-> FALSE, value |-> 0]}
                         \cup {[some |-> TRUE, value |-> n] :
                                 n \in AttemptCounts} :
         call' = [fn |-> "title_line2", line2 |-> line2, attempts |-> attempts,
                  base |-> title_category(line2),
                  overlay |-> IF attempts.some THEN title_attempts(attempts)
                              ELSE <<>>,
                  panic |-> ~attempts.some,
                  result |-> IF attempts.some
                               THEN title_merge(title_category(line2),
                                                title_attempts(attempts))
                               ELSE <<>>]
    /\ ProgramUnchanged

PureInit ==
    /\ Init
    /\ args = [help |-> FALSE, bad_opt |-> FALSE, free |-> <<>>]

PureNext ==
    \/ CallLayoutSizes
    \/ CallGetTuiColor
    \/ CallFormatInfoText
    \/ CallTitleLine2

PureSpec == PureInit /\ [][PureNext]_vars

(***************************************************************************)
(* The program.                                                            *)
(***************************************************************************)
MainStep ==
    \/ ParseOpts \/ LoadRun \/ OpenFile \/ ParseFile \/ CreateTimer
    \/ SetupDisplay \/ Spawn \/ Poll \/ ReadLock \/ Query \/ Flush \/ Sleep
    \/ ClearOnExit \/ ShowCursor \/ Return \/ Exit

InputStep ==
    \/ ReadKey \/ ReadEof \/ ReadErr \/ DispatchBreak \/ DispatchCommand
    \/ DispatchIgnore \/ Apply \/ Send

HotkeyStep == HotkeyPress \/ HotkeyApply

Next == MainStep \/ InputStep \/ HotkeyStep

Spec == Init /\ [][Next]_vars

\* Every thread that can run eventually runs; the input thread is never
\* forced to receive a key, nor the user to press a hotkey, and a thread
\* waiting for the lock is not promised to get it.
FairSpec ==
    /\ Spec
    /\ WF_vars(MainStep)
    /\ WF_vars(DispatchBreak \/ DispatchIgnore \/ Apply \/ Send)
    /\ WF_vars(HotkeyApply)

(***************************************************************************)
(* The positions of the two state machines.                                *)
(***************************************************************************)
Running == mainpc \in {"poll", "read", "reading", "flush", "sleep"}

Stopping == mainpc \in {"stopping", "show_cursor"}

Stopped ==
    \/ mainpc \in {"stopped", "dropped"}
    \/ mainpc = "exited" /\ chan.created

\* The keys the keyboard mapping binds to a command, and the command of each.
CommandKeys == {"1", "2", "3", "4", "5", "6", "8"}

MappedCommand ==
    [k \in CommandKeys |->
       CASE k = "1" -> "split_or_start"
         [] k = "2" -> "skip_split"
         [] k = "3" -> "reset(true)"
         [] k = "4" -> "switch_to_previous_comparison"
         [] k = "5" -> "toggle_pause_or_start"
         [] k = "6" -> "switch_to_next_comparison"
         [] k = "8" -> "undo_split"]

\* A step of the input thread away from its position p (the process ending
\* under it is not such a step).
InputLeaves(p) == lpc = p /\ lpc' # p /\ lpc' # "killed"

(***************************************************************************)
(* C1: for every key the input thread reads, the command applied to the    *)
(* timer is the one of the keyboard mapping: a mapped key takes the write  *)
(* lock and applies exactly its command, once; a key that is neither       *)
(* mapped nor 'q' applies nothing, leaves the timer as it is and sends no  *)
(* quit notification.                                                      *)
(***************************************************************************)
C1_KeyMapping ==
    [][ /\ (InputLeaves("dispatch") /\ key \in CommandKeys)
             => (lpc' = "applying" /\ timer' = timer /\ chan' = chan)
        /\ InputLeaves("applying")
             => /\ key \in CommandKeys
                /\ timer'.version = timer.version + 1
                /\ timer'.last = [cmd |-> MappedCommand[key], by |-> "input"]
                /\ lpc' = "await"
                /\ chan' = chan
        /\ (InputLeaves("dispatch") /\ key \notin CommandKeys \cup {"q"})
             => (lpc' = "await" /\ timer' = timer /\ chan' = chan
                 /\ lock' = lock)
        /\ (timer'.version # timer.version /\ timer'.last.by = "input")
             => (lpc = "applying" /\ key \in CommandKeys)
      ]_vars

\* '8' was applied as undo_split and the unmapped 'x' read after it left
\* the timer alone.
C1_Witness ==
    /\ lpc = "await" /\ key = "x" /\ nEvents = 2
    /\ timer.version = 1
    /\ timer.last = [cmd |-> "undo_split", by |-> "input"]
    /\ chan.sent = 0

(***************************************************************************)
(* C2: reading 'q' applies no command, and every inner read cycle that     *)
(* ends with 'q' goes straight to the send, reading no further key, and    *)
(* sends exactly one quit notification before the next cycle begins.       *)
(***************************************************************************)
C2_QuitSendsExactlyOne ==
    [][ /\ (InputLeaves("dispatch") /\ key = "q")
             => (lpc' = "send" /\ timer' = timer /\ lock' = lock
                 /\ chan' = chan /\ key' = key /\ nEvents' = nEvents)
        /\ (InputLeaves("send") /\ key = "q")
             => (lpc' = "await" /\ chan'.sent = chan.sent + 1
                 /\ chan'.pending = chan.pending + 1 /\ timer' = timer)
        /\ (key = "q" /\ chan'.sent # chan.sent) => lpc = "send"
        /\ (timer'.version # timer.version /\ timer'.last.by = "input")
             => key # "q"
      ]_vars

(***************************************************************************)
(* C3: a quit notification is sent only by the step that follows the       *)
(* reading of 'q' or the end of the input stream; a command key or an      *)
(* unmapped key never leads to the send.                                   *)
(***************************************************************************)
C3_OnlyQuitOrEofNotify ==
    [][ /\ chan'.sent # chan.sent
             => (lpc = "send" /\ key \in {"q", EOF}
                 /\ chan'.sent = chan.sent + 1)
        /\ (InputLeaves("dispatch") /\ key # "q") => lpc' # "send"
        /\ (lpc # "send" /\ lpc' = "send") => key' \in {"q", EOF}
      ]_vars

\* The input stream ended and the notification for it is on the channel.
C3_Witness ==
    /\ key = EOF /\ lpc = "await" /\ chan.sent = 1 /\ chan.pending = 1

(***************************************************************************)
(* C4: a widget query never overlaps the application of a command: while   *)
(* a writer holds the timer's lock no reader holds it, and while the       *)
(* render path holds a read guard no thread is applying a command.         *)
(***************************************************************************)
C4_ReadersExcludeWriters ==
    /\ lock.writer # "none" => lock.readers = 0
    /\ mainpc = "reading" => (lock.readers = 1 /\ lock.writer = "none")
    /\ (Alive /\ lpc = "applying") => (lock.writer = "input" /\ mainpc # "reading")
    /\ (Alive /\ hkpc = "applying") => (lock.writer = "hotkey" /\ mainpc # "reading")
    /\ ~(Alive /\ lpc = "applying" /\ hkpc = "applying")

\* The input thread is applying a command while draw waits for its next
\* read guard in the middle of a frame.
C4_Witness ==
    /\ lpc = "applying" /\ mainpc = "read" /\ Len(snap) = 2
    /\ lock.writer = "input"

(***************************************************************************)
(* C5 as the specification states it: the widget states of one frame all   *)
(* show the same engine state, no command being applied between two widget *)
(* queries of the frame.                                                   *)
(***************************************************************************)
C5_FrameShowsOneEngineState ==
    mainpc = "flush" =>
      \A i \in 1..Len(snap) : snap[i].version = snap[1].version

C7_LayoutHeights ==
    call.fn = "layout" =>
      /\ ~call.result.panic
      /\ call.result.sizes = <<3, call.len + 3, 2, 1, 1, 1>>

(***************************************************************************)
(* C8: the overlay merge of two operands of equal width has their width    *)
(* and, at every position, the overlay's character where that is not       *)
(* whitespace and the base's character where it is; so an all-whitespace   *)
(* overlay gives the base and an overlay without whitespace gives the      *)
(* overlay.  The title's second line and the info line both obey the rule. *)
(***************************************************************************)
Blank == {" ", "\t"}

C8_OverlayMerge ==
    (/\ call.fn \in {"format_info_text", "title_line2"}
     /\ ~call.panic
     /\ Len(call.base) = Len(call.overlay)) =>
      /\ Len(call.result) = Len(call.base)
      /\ \A i \in 1..Len(call.base) :
           call.result[i] = IF call.overlay[i] \in Blank
                              THEN call.base[i]
                              ELSE call.overlay[i]
      /\ (\A i \in 1..Len(call.overlay) : call.overlay[i] \in Blank)
           => call.result = call.base
      /\ (\A i \in 1..Len(call.overlay) : call.overlay[i] \notin Blank)
           => call.result = call.overlay

\* An info line whose label fills the field and whose value "b<tab>" ends
\* in whitespace: the value's b shows, the label shows everywhere else.
C8_Witness ==
    /\ call.fn = "format_info_text"
    /\ call.text = Fill("a", FieldWidth)
    /\ call.value = <<"b", "\t">>
    /\ call.result = [i \in 1..FieldWidth |->
                        IF i = FieldWidth - 1 THEN "b" ELSE "a"]

(***************************************************************************)
(* C9: every normalized channel c in [0,1] is mapped to floor(c * 255),    *)
(* which lies in 0..255: 0 gives 0, 1 gives 255, and no channel gives 256  *)
(* or wraps around.                                                        *)
(***************************************************************************)
C9_ColorQuantization ==
    call.fn = "get_tui_color" =>
      \A ch \in {"red", "green", "blue"} :
        LET c == call.color[ch]
            q == call.result[ch]
        IN  /\ q \in 0..255
            /\ q * c.den <= 255 * c.num
            /\ 255 * c.num < (q + 1) * c.den
            /\ (c.num = 0 => q = 0)
            /\ (c.num = c.den => q = 255)

\* White, black and a channel in between in one colour.
C9_Witness ==
    /\ call.fn = "get_tui_color"
    /\ call.color.red.num = call.color.red.den
    /\ call.color.green.num = 0
    /\ call.color.blue.num = 1
    /\ call.result.red = 255
    /\ call.result.green = 0
    /\ call.result.blue = 255 \div ColorSteps

(***************************************************************************)
(* C11: without a FILE argument the timer is built from the default run    *)
(* (game "Livesplit Terminal", category "Any%", the five segments          *)
(* "Split 1", "Split 2", "Split 3", "Split 4", "Complete!" in this order)  *)
(* and starts not running; a '1' applied by the input thread to the timer  *)
(* that is not running makes it running with segment 1 active, and a '1'   *)
(* applied while segment 1 is active records its split and makes segment 2 *)
(* active.                                                                 *)
(***************************************************************************)
C11_DefaultRunStartAndSplit ==
    /\ []((args.free = <<>> /\ timer.created) =>
            /\ run.game = "Livesplit Terminal"
            /\ run.category = "Any%"
            /\ run.segments =
                 <<"Split 1", "Split 2", "Split 3", "Split 4", "Complete!">>)
    /\ []((timer.created /\ timer.version = 0) =>
            (timer.phase = "NotRunning" /\ timer.current = 0
             /\ timer.recorded = {}))
    /\ [][ (InputLeaves("applying") /\ key = "1" /\ args.free = <<>>) =>
             /\ timer.phase = "NotRunning" =>
                  (timer'.phase = "Running" /\ timer'.current = 1
                   /\ timer'.recorded = {})
             /\ (timer.phase = "Running" /\ timer.current = 1) =>
                  (timer'.phase = "Running" /\ timer'.current = 2
                   /\ timer'.recorded = {1}
                   /\ timer'.current <= Len(run.segments))
          ]_vars

\* Two presses of '1' on the default run, no hotkey system: the split of
\* segment 1 is recorded and segment 2 is active.
C11_Witness ==
    /\ args.free = <<>> /\ hotkey_system = "none"
    /\ key = "1" /\ lpc = "await" /\ nEvents = 2
    /\ timer.version = 2 /\ timer.phase = "Running"
    /\ timer.current = 2 /\ timer.recorded = {1}
(***************************************************************************)
(* C12 as the specification states it: composing the title never fails;    *)
(* for a title state without attempt count the second line is omitted and  *)
(* the frame is drawn, and a title state without second line but with an   *)
(* attempt count is composed as well.                                      *)
(***************************************************************************)
C12_TitleToleratesAbsentParts ==
    call.fn = "title_line2" =>
      /\ ~call.panic
      /\ ~call.attempts.some => call.result = <<>>
      /\ (~call.line2.some /\ call.attempts.some) =>
           Len(call.result) = FieldWidth
(***************************************************************************)
(* C13 as the specification states it: at most one quit notification is    *)
(* pending on the channel (sent and not yet received by the render loop)   *)
(* in every reachable state.                                               *)
(***************************************************************************)
C13_AtMostOnePending == chan.pending <= 1
C15_LockHoldDiscipline ==
    /\ Alive => (lock.writer = "input" <=> lpc = "applying")
    /\ lpc \in {"await", "dispatch", "send", "panicked"}
         => lock.writer # "input"
    /\ lock.readers \in {0, 1}
    /\ lock.readers = 1 <=> mainpc = "reading"
    /\ mainpc \in {"poll", "read", "flush", "sleep", "stopping",
                   "show_cursor", "stopped"} => lock.readers = 0
    /\ Alive => (lock.writer = "hotkey" <=> hkpc = "applying")
    /\ (Alive /\ lock.writer = "input") => ENABLED Apply
    /\ (Alive /\ lock.writer = "hotkey") => ENABLED HotkeyApply
    /\ lock.readers = 1 => ENABLED Query

\* The input thread waits with '1' for the write lock while the render loop
\* is inside its fourth widget query, after an earlier command was applied
\* and the lock released.
C15_Witness ==
    /\ mainpc = "reading" /\ Len(snap) = 3 /\ lock.readers = 1
    /\ lpc = "dispatch" /\ key = "1" /\ lock.writer = "none"
    /\ timer.version = 1
(***************************************************************************)
(* C16 as the specification states it: as long as the process lives, the   *)
(* input thread, once spawned, is awaiting a key or dispatching one (up to *)
(* the send that ends a read cycle), whatever the key reads delivered and  *)
(* whatever the render loop has done; and after the send it awaits a key   *)
(* again.                                                                  *)
(***************************************************************************)
C16_ListenerNeverTerminates ==
    /\ [](lpc \in {"unspawned", "await", "dispatch", "applying", "send",
                   "killed"})
    /\ [][InputLeaves("send") => lpc' = "await"]_vars
(***************************************************************************)
(* C17 as the specification states it: a merge whose two padded operands   *)
(* differ in width fails and returns no composed string, so that no        *)
(* character of either operand is silently dropped.                        *)
(***************************************************************************)
C17_MismatchFailsFast ==
    (/\ call.fn \in {"format_info_text", "title_line2"}
     /\ Len(call.base) # Len(call.overlay)) =>
      /\ call.panic
      /\ call.result = <<>>
(***************************************************************************)
(* C18: every frame on the screen has as many table rows as the timer's    *)
(* run has segments, and a splits region of that many rows plus three;     *)
(* the frame is built from the splits state queried first within the same  *)
(* draw, which supplies both the rows and the height; and no widget state  *)
(* survives the draw that captured it, each frame querying anew.           *)
(***************************************************************************)
C18_RowsFollowSegmentCount ==
    /\ [](terminal.screen.state = "frame" =>
            /\ terminal.screen.rows = Len(run.segments)
            /\ terminal.screen.sizes[2] = Len(run.segments) + 3)
    /\ [](mainpc \in {"poll", "sleep"} => snap = <<>>)
    /\ [](snap # <<>> =>
            (snap[1].widget = "splits"
             /\ snap[1].splits_len = Len(run.segments)))
    /\ [][ (mainpc = "flush" /\ mainpc' = "sleep") =>
             /\ Len(snap) = Len(WidgetOrder)
             /\ terminal'.screen.rows = snap[1].splits_len
             /\ terminal'.screen.sizes[2] = snap[1].splits_len + 3
             /\ snap' = <<>>
          ]_vars

\* The second frame of a parsed run of four segments is about to be drawn
\* over the first, a command having been applied in between.
C18_Witness ==
    /\ mainpc = "flush" /\ Len(snap) = 6 /\ snap[1].splits_len = 4
    /\ terminal.screen.state = "frame" /\ terminal.screen.rows = 4
    /\ terminal.screen.sizes = <<3, 7, 2, 1, 1, 1>>
    /\ timer.version = 1
=============================================================================
